---- MODULE Spec2Model ----
(***************************************************************************)
(* Univariate polynomials over a finite field, jolt-core/src/poly/unipoly.rs *)
(* Dense polynomials (UniPoly) are coefficient sequences, index i holding  *)
(* the coefficient of x^i (TLA+ sequences are 1-based, so coeffs[i] of the *)
(* source is c[i+1] here).  The field F: JoltField is modelled as the      *)
(* prime field of integers modulo P.                                       *)
(***************************************************************************)
EXTENDS Integers, Sequences, FiniteSets, TLC

\* ------------------------------------------------------------------ bounds
\* longest dense / compressed coefficient sequence drawn as an input
MaxLen == 3
\* longest dividend and divisor drawn as inputs to divide_with_q_and_r
MaxDividendLen == 3
MaxDivisorLen == 2
\* largest number of evaluations handed to from_evals
MaxEvals == 3
\* longest transcript that exists before append_to_transcript is called
MaxPrior == 1

\* ------------------------------------------------------------- the field
\* modulus of the prime field standing for F: JoltField
P == 5

F == 0 .. (P - 1)

zero == 0

one == 1

Add(a, b) == (a + b) % P

Sub(a, b) == (a - b + P) % P

Mul(a, b) == (a * b) % P

\* F::from_u64(x): Some(x) when the field represents x exactly, else None
from_u64(x) == IF x < P THEN << x >> ELSE << >>

\* Option<F>: <<>> is None, <<b>> is Some(b).  The inverse of zero is None.
inverse(a) == IF a = zero THEN << >> ELSE << CHOOSE b \in F : Mul(a, b) = one >>

\* all coefficient sequences of length 0..n
Polys(n) == UNION { [1 .. k -> F] : k \in 0 .. n }

\* vec![F::zero(); n]
Zeros(n) == [i \in 1 .. n |-> zero]

\* ------------------------------------------------------ dense polynomial
is_zero(c) == Len(c) = 0 \/ \A i \in 1 .. Len(c) : c[i] = zero

\* Option<&F>: <<>> is None, <<x>> is Some(x)
leading_coefficient(c) == IF Len(c) = 0 THEN << >> ELSE << c[Len(c)] >>

\* coeffs.len() - 1 on usize.  On an empty sequence the subtraction
\* overflows (a panic in a debug build, 2^64 - 1 in a release build); every
\* caller below records that case before using the value.
degree(c) == Len(c) - 1

RECURSIVE StripTrailingZeros(_)
\* while let Some(true) = coeffs.last().map(|c| c == &F::zero()) { coeffs.pop(); }
StripTrailingZeros(c) ==
    IF Len(c) > 0 /\ c[Len(c)] = zero
    THEN StripTrailingZeros(SubSeq(c, 1, Len(c) - 1))
    ELSE c

\* for (i, div_coeff) in divisor.coeffs.iter().enumerate() {
\*     remainder.coeffs[cur_q_degree + i] -= &(cur_q_coeff * div_coeff); }
\* (every index cur_q_degree + i is checked by the caller)
SubtractShifted(rem, div, cur_q_degree, cur_q_coeff) ==
    [k \in 1 .. Len(rem) |->
        IF k - 1 >= cur_q_degree /\ k - 1 - cur_q_degree < Len(div)
        THEN Sub(rem[k], Mul(cur_q_coeff, div[k - cur_q_degree]))
        ELSE rem[k]]

\* LoopCond without the is_zero guard: degree() is read on every remainder
LoopCond_unguarded(rem, div) ==
    [ enter         |-> degree(rem) >= degree(div),
      degreeOfEmpty |-> Len(rem) = 0 ]

\* the test of the long-division loop:
\*   !remainder.is_zero() && remainder.degree() >= divisor.degree()
\* enter: the value of the test; degreeOfEmpty: degree() was evaluated on an
\* empty remainder (&& evaluates its right side only when the left is true)
LoopCond(rem, div) ==
    [ enter         |-> (~ is_zero(rem)) /\ degree(rem) >= degree(div),
      degreeOfEmpty |-> (~ is_zero(rem)) /\ Len(rem) = 0 ]

\* --------------------------------------------------- results of a call
Pending == [tag |-> "pending"]

Ok(v) == [tag |-> "ok", val |-> v]

Panicked(m) == [tag |-> "panic", msg |-> m]

\* ------------------------------------------------------------ evaluation
\* self.coeffs[0]
eval_at_zero(c) == c[1]

RECURSIVE SumFrom(_, _)
\* the sum of c[i..] in index order
SumFrom(c, i) == IF i > Len(c) THEN zero ELSE Add(c[i], SumFrom(c, i + 1))

\* (0..self.coeffs.len()).map(|i| self.coeffs[i]).sum()
eval_at_one(c) == SumFrom(c, 1)

RECURSIVE EvaluateLoop(_, _, _, _, _)
\* for i in 1..self.coeffs.len() { eval += power * self.coeffs[i]; power *= r; }
\* (i is the source's index; c[i + 1] is its coeffs[i])
EvaluateLoop(c, r, i, eval, power) ==
    IF i >= Len(c) THEN eval
    ELSE EvaluateLoop(c, r, i + 1, Add(eval, Mul(power, c[i + 1])), Mul(power, r))

RECURSIVE EvaluateLoop_stalePower(_, _, _, _, _)
\* EvaluateLoop without power *= r
EvaluateLoop_stalePower(c, r, i, eval, power) ==
    IF i >= Len(c) THEN eval
    ELSE EvaluateLoop_stalePower(c, r, i + 1, Add(eval, Mul(power, c[i + 1])), power)

\* evaluate whose power accumulator is never advanced
evaluate_stalePower(c, r) == EvaluateLoop_stalePower(c, r, 1, c[1], r)

\* let mut eval = self.coeffs[0]; let mut power = *r; <loop>; eval
evaluate(c, r) == EvaluateLoop(c, r, 1, c[1], r)

\* -------------------------------------------- compression, decompression
\* compress that drops the constant term instead of the linear term
compress_dropsConstant(c) ==
    IF Len(c) < 2 THEN Panicked("slice index out of range")
    ELSE Ok(SubSeq(c, 2, Len(c)))

\* [&self.coeffs[..1], &self.coeffs[2..]].concat(); both slices need
\* coeffs.len() >= 2, the debug_assert on the length then holds
compress(c) ==
    IF Len(c) < 2 THEN Panicked("slice index out of range")
    ELSE LET coeffs_except_linear_term == << c[1] >> \o SubSeq(c, 3, Len(c))
         IN  IF Len(coeffs_except_linear_term) + 1 # Len(c)
             THEN Panicked("debug_assert_eq failed")
             ELSE Ok(coeffs_except_linear_term)

RECURSIVE LinearTermLoop(_, _, _)
\* for i in 1..len { linear_term -= self.coeffs_except_linear_term[i]; }
LinearTermLoop(c, i, linear_term) ==
    IF i >= Len(c) THEN linear_term
    ELSE LinearTermLoop(c, i + 1, Sub(linear_term, c[i + 1]))

\* decompress that subtracts the constant term once instead of twice
decompress_constantOnce(c, hint) ==
    IF Len(c) = 0 THEN Panicked("index out of bounds")
    ELSE LET linear_term == LinearTermLoop(c, 1, Sub(hint, c[1]))
         IN  Ok(<< c[1], linear_term >> \o SubSeq(c, 2, Len(c)))

\* decompress that stores the recovered term before the constant term
decompress_linearFirst(c, hint) ==
    IF Len(c) = 0 THEN Panicked("index out of bounds")
    ELSE LET linear_term == LinearTermLoop(c, 1, Sub(Sub(hint, c[1]), c[1]))
         IN  Ok(<< linear_term, c[1] >> \o SubSeq(c, 2, Len(c)))

\* decompress(&self, hint): c is self.coeffs_except_linear_term
decompress(c, hint) ==
    IF Len(c) = 0 THEN Panicked("index out of bounds")
    ELSE LET linear_term == LinearTermLoop(c, 1, Sub(Sub(hint, c[1]), c[1]))
             coeffs == << c[1], linear_term >> \o SubSeq(c, 2, Len(c))
         IN  IF Len(c) + 1 # Len(coeffs)
             THEN Panicked("assert_eq failed")
             ELSE Ok(coeffs)

\* ------------------------------------------------------------ transcript
\* ProofTranscript::append_message(label, msg): one entry at the end
append_message(t, label, msg) ==
    Append(t, [kind |-> "message", label |-> label, msg |-> msg])

\* ProofTranscript::append_scalar(label, scalar): one entry at the end
append_scalar(t, label, x) ==
    Append(t, [kind |-> "scalar", label |-> label, scalar |-> x])

RECURSIVE AppendCoeffs(_, _, _)
\* for i in 0..self.coeffs.len() { transcript.append_scalar(b"coeff", &self.coeffs[i]); }
AppendCoeffs(t, c, i) ==
    IF i >= Len(c) THEN t
    ELSE AppendCoeffs(append_scalar(t, "coeff", c[i + 1]), c, i + 1)

\* append_to_transcript whose loop starts at index 1
append_to_transcript_skipsFirst(c, label, t) ==
    append_message(AppendCoeffs(append_message(t, label, "UniPoly_begin"), c, 1),
                   label, "UniPoly_end")

\* the transcript after append_to_transcript(&self, label, transcript)
append_to_transcript(c, label, t) ==
    append_message(AppendCoeffs(append_message(t, label, "UniPoly_begin"), c, 0),
                   label, "UniPoly_end")

\* --------------------------------------------------------- interpolation
RECURSIVE RowPowers(_, _, _, _)
\* for j in 2..n { row.push(row[j - 1] * x); }
RowPowers(row, x, j, n) ==
    IF j >= n THEN row
    ELSE RowPowers(Append(row, Mul(row[j], x)), x, j + 1, n)

\* the row built for the point x and the value y:
\* row.push(F::one()); row.push(x); <loop>; row.push(evals[i]);
VandermondeRow(x, y, n) == Append(RowPowers(<< one, x >>, x, 2, n), y)

\* the matrix vandermonde_interpolation hands to gaussian_elimination
\* (row i + 1 here is the source's row i, whose point is xs[i] = from_u64(i))
VandermondeMatrix(evals) ==
    [i \in 1 .. Len(evals) |-> VandermondeRow(from_u64(i - 1)[1], evals[i], Len(evals))]

\* an n x (n+1) augmented system, n >= 1
WellFormed(m) == Len(m) >= 1 /\ \A i \in 1 .. Len(m) : Len(m[i]) = Len(m) + 1

RECURSIVE DotUpTo(_, _, _)
\* row[1]*x[1] + ... + row[k]*x[k]
DotUpTo(row, x, k) == IF k = 0 THEN zero ELSE Add(Mul(row[k], x[k]), DotUpTo(row, x, k - 1))

Solves(m, x) == \A i \in 1 .. Len(m) : DotUpTo(m[i], x, Len(m)) = m[i][Len(m) + 1]

\* gaussian_elimination(&mut matrix): the exact solution of a well-formed
\* system that has one; nothing is known of it on any other matrix
gaussian_elimination(m) ==
    IF WellFormed(m) /\ \E x \in [1 .. Len(m) -> F] : Solves(m, x)
    THEN Ok(CHOOSE x \in [1 .. Len(m) -> F] : Solves(m, x))
    ELSE [tag |-> "unspecified"]

\* from_evals(evals): the coefficients of the returned UniPoly
from_evals(evals) ==
    IF \E i \in 1 .. Len(evals) : from_u64(i - 1) = << >>
    THEN Panicked("unwrap of None from_u64")
    ELSE gaussian_elimination(VandermondeMatrix(evals))

\* ---------------------------------------------------------------- state
VARIABLES
    pc,          \* position of the operation being run
    ret,         \* what the operation returned, or the panic that ended it
    dividend,    \* self of divide_with_q_and_r
    divisor,     \* divisor of divide_with_q_and_r
    quotient,    \* the local quotient / the first component of the result
    remainder,   \* the local remainder / the second component of the result
    divisor_leading_inv,
    iters,       \* number of times the body of the long-division loop has run
    poly,        \* coeffs of the dense polynomial an operation is called on
    point,       \* r of evaluate
    val_r,       \* result of evaluate(&r)
    val_zero,    \* result of eval_at_zero()
    val_one,     \* result of eval_at_one()
    compressed,  \* coeffs_except_linear_term: compressed from poly, or deserialized
    hints,       \* the two hints decompress is called with
    decompressed,\* decompressed[k]: result of decompress(&hints[k])
    label,       \* label of append_to_transcript
    prior,       \* the transcript as it was before append_to_transcript
    transcript,  \* the entries of the ProofTranscript, oldest first
    evals,       \* evals of from_evals
    vandermonde, \* the matrix from_evals handed to gaussian_elimination
    interpolated \* result of from_evals

divVars == << pc, ret, dividend, divisor, quotient, remainder, divisor_leading_inv, iters >>

evalVars == << point, val_r, val_zero, val_one >>

compVars == << compressed, hints, decompressed >>

trVars == << label, prior, transcript >>

interpVars == << evals, vandermonde, interpolated >>

vars == << divVars, poly, evalVars, compVars, trVars, interpVars >>

\* the values of the variables an operation does not use
IdleDiv ==
    /\ pc = "idle" /\ ret = "pending"
    /\ dividend = << >> /\ divisor = << >> /\ quotient = << >> /\ remainder = << >>
    /\ divisor_leading_inv = zero /\ iters = 0

IdleEval == point = zero /\ val_r = Pending /\ val_zero = Pending /\ val_one = Pending

IdleComp ==
    /\ compressed = Pending /\ hints = << zero, zero >>
    /\ decompressed = << Pending, Pending >>

IdleTr == label = "" /\ prior = << >> /\ transcript = << >>

IdleInterp == evals = << >> /\ vandermonde = << >> /\ interpolated = Pending

\* ------------------------------------------------ divide_with_q_and_r
InitDiv ==
    /\ pc = "call"
    /\ ret = "pending"
    /\ dividend \in Polys(MaxDividendLen)
    /\ divisor \in Polys(MaxDivisorLen)
    /\ quotient = << >>
    /\ remainder = << >>
    /\ divisor_leading_inv = zero
    /\ iters = 0
    /\ poly = << >> /\ IdleEval /\ IdleComp /\ IdleTr /\ IdleInterp

\* the entry of divide_with_q_and_r: the three early returns, or the set-up
\* of the long division
divide_with_q_and_r ==
    /\ pc = "call"
    /\ UNCHANGED << dividend, divisor, iters >>
    /\ UNCHANGED << poly, evalVars, compVars, trVars, interpVars >>
    /\ IF is_zero(dividend)
       THEN /\ pc' = "done" /\ ret' = "Some"
            /\ quotient' = << >> /\ remainder' = << >>
            /\ UNCHANGED divisor_leading_inv
       ELSE IF is_zero(divisor)
       THEN /\ pc' = "done" /\ ret' = "None"
            /\ UNCHANGED << quotient, remainder, divisor_leading_inv >>
       ELSE IF degree(dividend) < degree(divisor)
       THEN /\ pc' = "done" /\ ret' = "Some"
            /\ quotient' = << >> /\ remainder' = dividend
            /\ UNCHANGED divisor_leading_inv
       ELSE LET inv == inverse(leading_coefficient(divisor)[1])
            IN  /\ quotient' = Zeros(degree(dividend) - degree(divisor) + 1)
                /\ remainder' = dividend
                /\ IF inv = << >>
                   THEN /\ pc' = "panic" /\ ret' = "unwrap of None inverse"
                        /\ UNCHANGED divisor_leading_inv
                   ELSE /\ pc' = "loop" /\ ret' = "pending"
                        /\ divisor_leading_inv' = inv[1]

\* one test of the while condition and, when it holds, one run of the body
WhileStep ==
    /\ pc = "loop"
    /\ iters < MaxDividendLen + 2
    /\ UNCHANGED << dividend, divisor, divisor_leading_inv >>
    /\ UNCHANGED << poly, evalVars, compVars, trVars, interpVars >>
    /\ LET cond == LoopCond(remainder, divisor)
       IN  IF cond.degreeOfEmpty
           THEN \* debug: the subtraction panics; release: the wrapped degree
                \* passes the test and leading_coefficient().unwrap() panics
                /\ pc' = "panic" /\ ret' = "degree of empty remainder"
                /\ UNCHANGED << quotient, remainder, iters >>
           ELSE IF ~ cond.enter
           THEN /\ pc' = "done" /\ ret' = "Some"
                /\ UNCHANGED << quotient, remainder, iters >>
           ELSE LET lead == leading_coefficient(remainder)
                    cur_q_degree == degree(remainder) - degree(divisor)
                IN  IF lead = << >>
                    THEN /\ pc' = "panic" /\ ret' = "unwrap of None leading coefficient"
                         /\ UNCHANGED << quotient, remainder, iters >>
                    ELSE IF \/ cur_q_degree < 0
                            \/ cur_q_degree >= Len(quotient)
                            \/ cur_q_degree + Len(divisor) > Len(remainder)
                    THEN /\ pc' = "panic" /\ ret' = "index out of bounds"
                         /\ UNCHANGED << quotient, remainder, iters >>
                    ELSE LET cur_q_coeff == Mul(lead[1], divisor_leading_inv)
                         IN  /\ quotient' = [quotient EXCEPT ![cur_q_degree + 1] = cur_q_coeff]
                             /\ remainder' = StripTrailingZeros(
                                    SubtractShifted(remainder, divisor, cur_q_degree, cur_q_coeff))
                             /\ iters' = iters + 1
                             /\ pc' = "loop" /\ ret' = "pending"

NextDiv == divide_with_q_and_r \/ WhileStep

SpecDiv == InitDiv /\ [][NextDiv]_vars

\* sequential code always takes its next step
FairSpecDiv == SpecDiv /\ WF_vars(NextDiv)

\* ------------------------------ evaluate, eval_at_zero, eval_at_one
InitEval ==
    /\ poly \in Polys(MaxLen)
    /\ point \in F
    /\ val_r = Pending /\ val_zero = Pending /\ val_one = Pending
    /\ IdleDiv /\ IdleComp /\ IdleTr /\ IdleInterp

\* poly.evaluate(&point); coeffs[0] panics on an empty coefficient sequence
Evaluate ==
    /\ val_r.tag = "pending"
    /\ val_r' = IF Len(poly) = 0 THEN Panicked("index out of bounds")
                ELSE Ok(evaluate(poly, point))
    /\ UNCHANGED << poly, point, val_zero, val_one, divVars, compVars, trVars, interpVars >>

\* poly.eval_at_zero(); coeffs[0] panics on an empty coefficient sequence
EvalAtZero ==
    /\ val_zero.tag = "pending"
    /\ val_zero' = IF Len(poly) = 0 THEN Panicked("index out of bounds")
                   ELSE Ok(eval_at_zero(poly))
    /\ UNCHANGED << poly, point, val_r, val_one, divVars, compVars, trVars, interpVars >>

\* poly.eval_at_one()
EvalAtOne ==
    /\ val_one.tag = "pending"
    /\ val_one' = Ok(eval_at_one(poly))
    /\ UNCHANGED << poly, point, val_r, val_zero, divVars, compVars, trVars, interpVars >>

NextEval == Evaluate \/ EvalAtZero \/ EvalAtOne

SpecEval == InitEval /\ [][NextEval]_vars

\* ------------------------------------------------ compress, decompress
\* a compressed polynomial is made by compress() from a dense polynomial, or
\* arrives through CanonicalDeserialize, which accepts any coefficient vector
InitComp ==
    /\ hints \in F \X F
    /\ decompressed = << Pending, Pending >>
    /\ \/ poly \in Polys(MaxLen) /\ compressed = Pending
       \/ poly = << >> /\ compressed \in { Ok(c) : c \in Polys(MaxLen) }
    /\ IdleDiv /\ IdleEval /\ IdleTr /\ IdleInterp

\* poly.compress()
Compress ==
    /\ compressed.tag = "pending"
    /\ compressed' = compress(poly)
    /\ UNCHANGED << poly, hints, decompressed, divVars, evalVars, trVars, interpVars >>

\* compressed.decompress(&hints[k])
Decompress(k) ==
    /\ compressed.tag = "ok"
    /\ decompressed[k].tag = "pending"
    /\ decompressed' = [decompressed EXCEPT ![k] = decompress(compressed.val, hints[k])]
    /\ UNCHANGED << poly, hints, compressed, divVars, evalVars, trVars, interpVars >>

NextComp == Compress \/ \E k \in 1 .. 2 : Decompress(k)

SpecComp == InitComp /\ [][NextComp]_vars

\* -------------------------------------------------- append_to_transcript
Labels == {"poly", "round"}

\* entries other writers may have left in the transcript
PriorEntries ==
    { [kind |-> "message", label |-> "poly", msg |-> "UniPoly_end"],
      [kind |-> "scalar", label |-> "coeff", scalar |-> one] }

InitTr ==
    /\ poly \in Polys(MaxLen)
    /\ label \in Labels
    /\ prior \in UNION { [1 .. k -> PriorEntries] : k \in 0 .. MaxPrior }
    /\ transcript = prior
    /\ pc = "call" /\ ret = "pending"
    /\ dividend = << >> /\ divisor = << >> /\ quotient = << >> /\ remainder = << >>
    /\ divisor_leading_inv = zero /\ iters = 0
    /\ IdleEval /\ IdleComp /\ IdleInterp

\* poly.append_to_transcript(label, &mut transcript)
AppendToTranscript ==
    /\ pc = "call"
    /\ pc' = "done"
    /\ transcript' = append_to_transcript(poly, label, transcript)
    /\ UNCHANGED << poly, label, prior, evalVars, compVars, interpVars >>
    /\ UNCHANGED << ret, dividend, divisor, quotient, remainder, divisor_leading_inv, iters >>

NextTr == AppendToTranscript

SpecTr == InitTr /\ [][NextTr]_vars

\* ------------------------------------------------------------ from_evals
InitInterp ==
    /\ evals \in Polys(MaxEvals)
    /\ vandermonde = << >>
    /\ interpolated = Pending
    /\ poly = << >>
    /\ IdleDiv /\ IdleEval /\ IdleComp /\ IdleTr

\* UniPoly::from_evals(&evals)
FromEvals ==
    /\ interpolated.tag = "pending"
    /\ interpolated' = from_evals(evals)
    /\ vandermonde' = IF \E i \in 1 .. Len(evals) : from_u64(i - 1) = << >>
                      THEN << >> ELSE VandermondeMatrix(evals)
    /\ UNCHANGED << evals, poly, divVars, evalVars, compVars, trVars >>

NextInterp == FromEvals

SpecInterp == InitInterp /\ [][NextInterp]_vars

\* ------------------------------------------- polynomial algebra (for the
\* statements below): coefficient of x^d, with d counted from 0
Coef(c, d) == IF d >= 0 /\ d < Len(c) THEN c[d + 1] ELSE zero

RECURSIVE ProdCoefUpTo(_, _, _, _)
\* sum over i in 0..n of a_i * b_(d-i)
ProdCoefUpTo(a, b, d, n) ==
    IF n < 0 THEN zero
    ELSE Add(Mul(Coef(a, n), Coef(b, d - n)), ProdCoefUpTo(a, b, d, n - 1))

\* coefficient of x^d in a*b + c
MulAddCoef(a, b, c, d) == Add(ProdCoefUpTo(a, b, d, d), Coef(c, d))

\* dividend = quotient * divisor + remainder, as polynomials
DivisionIdentity ==
    \A d \in 0 .. (Len(dividend) + Len(quotient) + Len(divisor) + Len(remainder)) :
        Coef(dividend, d) = MulAddCoef(quotient, divisor, remainder, d)

DivReturned == pc \in {"done", "panic"}

\* C2: for every dividend and every divisor that is not the zero polynomial
\* (whatever its highest-index coefficient is), divide_with_q_and_r returns
\* Some((quotient, remainder)) with dividend = quotient*divisor + remainder
\* and remainder zero or of degree less than the divisor's degree (degree as
\* degree() computes it).
C2_DivisionByNonZeroDivisor ==
    (DivReturned /\ ~ is_zero(divisor)) =>
        /\ ret = "Some"
        /\ DivisionIdentity
        /\ (is_zero(remainder) \/ degree(remainder) < degree(divisor))

\* C3: for every dividend, the zero polynomial included, a divisor that is
\* the zero polynomial makes divide_with_q_and_r return None, without panic.
C3_ZeroDivisorGivesNone ==
    (DivReturned /\ is_zero(divisor)) => (pc = "done" /\ ret = "None")

\* C10, in every state: no index written by the loop is out of bounds, degree
\* is never computed on an empty sequence, and the body has run at most
\* deg(dividend) - deg(divisor) + 1 times.
C10Safe ==
    /\ ret \notin {"index out of bounds", "degree of empty remainder",
                   "unwrap of None leading coefficient"}
    /\ (pc = "loop" \/ iters > 0) =>
           iters <= degree(dividend) - degree(divisor) + 1

\* C10, in every step: a run of the loop body strictly shortens the remainder.
C10Step == (pc = "loop" /\ iters' = iters + 1) => Len(remainder') < Len(remainder)

\* C10: whenever divide_with_q_and_r enters its long-division loop the loop
\* terminates: every iteration strictly shortens the remainder, every index
\* written is within bounds, degree is never computed on an empty sequence,
\* and the loop runs at most deg(dividend) - deg(divisor) + 1 times.
C10_LoopTerminates ==
    /\ [] C10Safe
    /\ [][C10Step]_vars
    /\ ((pc = "loop") ~> (pc = "done" /\ ret = "Some"))

\* the loop ran twice and then ended with a non-zero remainder
C10_Witness == pc = "done" /\ iters = 2 /\ ~ is_zero(remainder)

\* ------------------------------------------------- evaluation statements
RECURSIVE Pow(_, _)
\* r^k in the field, r^0 = 1
Pow(r, k) == IF k = 0 THEN one ELSE Mul(r, Pow(r, k - 1))

RECURSIVE PowerSum(_, _, _)
\* the sum over d in 0..n of (coefficient of x^d) * r^d
PowerSum(c, r, n) ==
    IF n < 0 THEN zero ELSE Add(Mul(Coef(c, n), Pow(r, n)), PowerSum(c, r, n - 1))

\* C7: for every dense polynomial with at least one coefficient and every r,
\* evaluate(r) is the sum of coeffs[i] * r^i; eval_at_zero is coeffs[0] and
\* agrees with evaluate(0); eval_at_one is the sum of all coefficients and
\* agrees with evaluate(1).
C7_EvaluateIsPowerSum ==
    Len(poly) >= 1 =>
        /\ val_r.tag # "pending" => val_r = Ok(PowerSum(poly, point, Len(poly) - 1))
        /\ val_zero.tag # "pending" => val_zero = Ok(poly[1])
        /\ val_one.tag # "pending" => val_one = Ok(PowerSum(poly, one, Len(poly) - 1))
        /\ (point = zero /\ val_r.tag # "pending" /\ val_zero.tag # "pending")
               => val_r = val_zero
        /\ (point = one /\ val_r.tag # "pending" /\ val_one.tag # "pending")
               => val_r = val_one

\* a quadratic with non-zero leading coefficient evaluated by all three
\* methods, at a point other than 0 and 1
C7_Witness ==
    /\ Len(poly) = 3 /\ poly[3] # zero /\ point = 2
    /\ val_r.tag = "ok" /\ val_zero.tag = "ok" /\ val_one.tag = "ok"

\* ------------------------------------------------ compression statements
\* evaluate(P, 0) + evaluate(P, 1)
SumcheckHint(c) == Add(evaluate(c, zero), evaluate(c, one))

\* C1: for every dense polynomial P with at least 2 coefficients and
\* hint = evaluate(P, 0) + evaluate(P, 1), decompress(compress(P), hint) has
\* the length of P and the coefficient of P at every index.
C1_RoundTrip ==
    (Len(poly) >= 2 /\ hints[1] = SumcheckHint(poly)) =>
        /\ compressed.tag # "panic"
        /\ decompressed[1].tag # "pending" =>
               /\ decompressed[1].tag = "ok"
               /\ Len(decompressed[1].val) = Len(poly)
               /\ \A i \in 1 .. Len(poly) : decompressed[1].val[i] = poly[i]

\* a quadratic with non-zero constant and linear terms went through
\* compress and decompress with its own hint
C1_Witness ==
    /\ Len(poly) = 3 /\ poly[1] # zero /\ poly[2] # zero
    /\ hints[1] = SumcheckHint(poly)
    /\ compressed.tag = "ok" /\ decompressed[1].tag = "ok"

\* C5: decompress has no failure path: for every compressed polynomial that
\* can exist (any coefficient sequence of any length) and every hint,
\* decompress returns a dense polynomial and never aborts.
C5_DecompressNeverFails ==
    \A k \in 1 .. 2 :
        (compressed.tag = "ok" /\ decompressed[k].tag # "pending")
            => decompressed[k].tag = "ok"

\* C6: for every compressed polynomial with at least one coefficient and two
\* hints h1 # h2, the two decompressions have the same length, the same
\* coefficient at index 0 and at every index >= 2, and different coefficients
\* at index 1.
C6_HintChangesOnlyLinearTerm ==
    ( /\ compressed.tag = "ok" /\ Len(compressed.val) >= 1
      /\ hints[1] # hints[2]
      /\ decompressed[1].tag # "pending" /\ decompressed[2].tag # "pending" ) =>
        /\ decompressed[1].tag = "ok" /\ decompressed[2].tag = "ok"
        /\ LET d1 == decompressed[1].val
               d2 == decompressed[2].val
           IN  /\ Len(d1) = Len(d2)
               /\ Len(d1) >= 2
               /\ d1[1] = d2[1]
               /\ d1[2] # d2[2]
               /\ \A i \in 3 .. Len(d1) : d1[i] = d2[i]

\* a compressed cubic decompressed with two different hints
C6_Witness ==
    /\ compressed.tag = "ok" /\ Len(compressed.val) = 3
    /\ hints[1] # hints[2]
    /\ decompressed[1].tag = "ok" /\ decompressed[2].tag = "ok"

\* C9: for every compressed polynomial C with at least one coefficient and
\* every hint h, D = decompress(C, h) has eval_at_zero(D) + eval_at_one(D) = h
\* and linear coefficient h - 2*C[0] - (sum of C[1..]).
C9_DecompressedMeetsHint ==
    \A k \in 1 .. 2 :
        ( /\ compressed.tag = "ok" /\ Len(compressed.val) >= 1
          /\ decompressed[k].tag # "pending" ) =>
            /\ decompressed[k].tag = "ok"
            /\ LET D == decompressed[k].val
                   C == compressed.val
               IN  /\ Add(eval_at_zero(D), eval_at_one(D)) = hints[k]
                   /\ D[2] = Sub(Sub(hints[k], Mul(2, C[1])),
                                 PowerSum(Tail(C), one, Len(C) - 2))

\* a deserialized compressed polynomial with non-zero constant term,
\* decompressed with a hint that is not the sum-check hint of any intent
C9_Witness ==
    /\ Len(poly) = 0
    /\ compressed.tag = "ok" /\ Len(compressed.val) = 2 /\ compressed.val[1] # zero
    /\ decompressed[2].tag = "ok"

\* -------------------------------------------------- transcript statement
\* C8, once append_to_transcript has returned: the transcript is the prior
\* transcript followed by exactly k+2 entries: the begin marker, the
\* coefficients at index 0..k-1 each as one scalar, the end marker.
C8Appended ==
    pc = "done" =>
        LET k == Len(poly)
            n == Len(prior)
        IN  /\ Len(transcript) = n + k + 2
            /\ SubSeq(transcript, 1, n) = prior
            /\ transcript[n + 1] =
                   [kind |-> "message", label |-> label, msg |-> "UniPoly_begin"]
            /\ \A i \in 1 .. k :
                   transcript[n + 1 + i] =
                       [kind |-> "scalar", label |-> "coeff", scalar |-> poly[i]]
            /\ transcript[n + k + 2] =
                   [kind |-> "message", label |-> label, msg |-> "UniPoly_end"]

\* C8: append_to_transcript on a polynomial with k coefficients appends
\* exactly k+2 entries, in order the begin marker, coefficients 0..k-1, the
\* end marker; earlier entries stay before them and the coefficients of the
\* polynomial are unchanged.
C8_AppendOrder == [] C8Appended /\ [][poly' = poly]_vars

\* a quadratic appended to a transcript that already held an entry
C8_Witness ==
    /\ pc = "done" /\ Len(poly) = 3 /\ poly[1] # poly[3] /\ Len(prior) = 1
    /\ Len(transcript) = 6

\* ----------------------------------------------- interpolation statement
\* C4: for every n >= 1 below the field characteristic and every evals of
\* length n, from_evals builds an n x (n+1) matrix whose row i is
\* [i^0, ..., i^(n-1), evals[i]], and with an exact solver the result has n
\* coefficients and evaluates to evals[i] at every i in 0..n-1.
C4_InterpolationMatrixAndResult ==
    (interpolated.tag # "pending" /\ Len(evals) >= 1 /\ Len(evals) < P) =>
        LET n == Len(evals)
        IN  /\ Len(vandermonde) = n
            /\ \A i \in 1 .. n :
                   /\ Len(vandermonde[i]) = n + 1
                   /\ \A j \in 1 .. n : vandermonde[i][j] = Pow(i - 1, j - 1)
                   /\ vandermonde[i][n + 1] = evals[i]
            /\ interpolated.tag = "ok"
            /\ Len(interpolated.val) = n
            /\ \A i \in 1 .. n : evaluate(interpolated.val, i - 1) = evals[i]

====
